---- MODULE Spec2Model ----
(***************************************************************************)
(* The scalar field Fr of BN256 (src/bn256/fr.rs) and the inline-assembly  *)
(* addition (asm/src/arithmetic.rs).                                       *)
(*                                                                         *)
(* TLC's integers are 32 bits wide, so a u64 is kept exactly as four       *)
(* 16-bit digits, least significant first; every u64/u128 operation of the *)
(* source is computed digit by digit with the source's wrap-around.  A     *)
(* field element Fr([u64; 4]) is a 4-tuple of such limbs, limb 0 first.    *)
(*                                                                         *)
(* A sequence of let bindings of the source is a sequence of steps on a    *)
(* tuple of the locals, run in the source's order; where the source        *)
(* repeats a binding limb by limb, the steps are run by a loop over the    *)
(* limb index whose state is <<index, locals>>.                            *)
(***************************************************************************)
EXTENDS Integers, Sequences, FiniteSets, TLC

(***************************************************************************)
(* u64 values and the built-in u64 operators the source uses               *)
(***************************************************************************)

\* A u64 literal written as in the source, most significant 16 bits first.
H64(d3, d2, d1, d0) == <<d0, d1, d2, d3>>

\* The literal 0 (and 0 as carry-in).
U0 == <<0, 0, 0, 0>>

\* The literal 1.
U1 == <<1, 0, 0, 0>>

\* All 64 bits set (u64::max_value()).
UMAX == <<65535, 65535, 65535, 65535>>

\* x & y on 16-bit digits.
RECURSIVE And16(_, _)
And16(x, y) ==
  IF x = 0 \/ y = 0 THEN 0
  ELSE IF x = 65535 THEN y
  ELSE IF y = 65535 THEN x
  ELSE (x % 2) * (y % 2) + 2 * And16(x \div 2, y \div 2)

\* x | y on 16-bit digits.
RECURSIVE Or16(_, _)
Or16(x, y) ==
  IF x = 0 THEN y
  ELSE IF y = 0 THEN x
  ELSE (IF x % 2 = 1 \/ y % 2 = 1 THEN 1 ELSE 0) + 2 * Or16(x \div 2, y \div 2)

\* u64 & u64
And64(x, y) == <<And16(x[1], y[1]), And16(x[2], y[2]), And16(x[3], y[3]), And16(x[4], y[4])>>

\* u64 | u64
Or64(x, y) == <<Or16(x[1], y[1]), Or16(x[2], y[2]), Or16(x[3], y[3]), Or16(x[4], y[4])>>

(***************************************************************************)
(* Multi-digit sums.  A sum is first collected as a tuple c of column sums *)
(* (column k holds the digits of weight 65536^(k-1), 0 <= c[k] < 2^31 -    *)
(* 2^16), and its digits are then read off: column k keeps its low 16 bits *)
(* and receives the high bits of column k - 1, which leaves carries of at  *)
(* most 1, and a carry enters column k when a column below generates one   *)
(* and all columns in between pass it on.  A difference a - b is the sum   *)
(* a + ~b + 1, with no carry out exactly when it borrows.                  *)
(***************************************************************************)

\* Column k after the high bits of the columns have moved up one column.
ColLow(c, k) == (c[k] % 65536) + (IF k = 1 THEN 0 ELSE c[k - 1] \div 65536)

\* A carry of 1 enters column k.
CarryInto(c, k) ==
  \E j \in 1..(k - 1) :
    /\ ColLow(c, j) >= 65536
    /\ \A i \in (j + 1)..(k - 1) : ColLow(c, i) = 65535

\* Digit k of the sum with the column sums c.
Digit(c, k) == (ColLow(c, k) + (IF CarryInto(c, k) THEN 1 ELSE 0)) % 65536

\* The low 64 bits of the sum with the column sums c.
Low64(c) == <<Digit(c, 1), Digit(c, 2), Digit(c, 3), Digit(c, 4)>>

\* Bits 64..127 of the sum with the column sums c.
High64(c) == <<Digit(c, 5), Digit(c, 6), Digit(c, 7), Digit(c, 8)>>

\* The column sums of a + ~b + 1 - bin, bin the borrow in (0 or 1).
DiffColumns(a, b, bin) ==
  <<a[1] + (65535 - b[1]) + (1 - bin), a[2] + (65535 - b[2]),
    a[3] + (65535 - b[3]), a[4] + (65535 - b[4]), 0>>

\* a.wrapping_sub(b): the low 64 bits of the difference.
wrapping_sub(a, b) == Low64(DiffColumns(a, b, 0))

\* x >> 63
Shr63(x) == <<x[4] \div 32768, 0, 0, 0>>

\* x << 1 (the top bit is shifted out)
Shl1(x) ==
  <<(2 * x[1]) % 65536,
    ((2 * x[2]) % 65536) + (x[1] \div 32768),
    ((2 * x[3]) % 65536) + (x[2] \div 32768),
    ((2 * x[4]) % 65536) + (x[3] \div 32768)>>

\* (e >> i) & 1 for 0 <= i < 64
Bit(e, i) == (e[(i \div 16) + 1] \div (2 ^ (i % 16))) % 2

\* The low 16 bits of the product of two 16-bit digits; y is split into
\* bytes so that no intermediate value exceeds 31 bits.
Lo(x, y) == (x * (y % 256) + ((x * (y \div 256)) % 256) * 256) % 65536

\* The high 16 bits of the product of two 16-bit digits.
Hi(x, y) ==
  ((x * (y % 256) + ((x * (y \div 256)) % 256) * 256) \div 65536) + ((x * (y \div 256)) \div 256)

\* The column sums of a + carry + b * c for u64 a, carry, b, c.
MacColumns(a, carry, b, c) ==
  <<(a[1] + carry[1]) + Lo(b[1], c[1]),
    ((a[2] + carry[2]) + Hi(b[1], c[1])) + (Lo(b[1], c[2]) + Lo(b[2], c[1])),
    ((a[3] + carry[3]) + (Hi(b[1], c[2]) + Hi(b[2], c[1])))
      + ((Lo(b[1], c[3]) + Lo(b[2], c[2])) + Lo(b[3], c[1])),
    (((a[4] + carry[4]) + (Hi(b[1], c[3]) + Hi(b[2], c[2])))
      + ((Hi(b[3], c[1]) + Lo(b[1], c[4])) + (Lo(b[2], c[3]) + Lo(b[3], c[2]))))
      + Lo(b[4], c[1]),
    ((Hi(b[1], c[4]) + Hi(b[2], c[3])) + (Hi(b[3], c[2]) + Hi(b[4], c[1])))
      + ((Lo(b[2], c[4]) + Lo(b[3], c[3])) + Lo(b[4], c[2])),
    ((Hi(b[2], c[4]) + Hi(b[3], c[3])) + Hi(b[4], c[2])) + (Lo(b[3], c[4]) + Lo(b[4], c[3])),
    (Hi(b[3], c[4]) + Hi(b[4], c[3])) + Lo(b[4], c[4]),
    Hi(b[4], c[4])>>

\* a.wrapping_mul(b): the low 64 bits of the product.
wrapping_mul(a, b) == Low64(MacColumns(U0, U0, a, b))

(***************************************************************************)
(* Carry primitives (crate::arithmetic)                                    *)
(***************************************************************************)

\* The column sums of a + b + carry for u64 a, b, carry.
AddColumns(a, b, carry) ==
  <<a[1] + b[1] + carry[1], a[2] + b[2] + carry[2],
    a[3] + b[3] + carry[3], a[4] + b[4] + carry[4], 0>>

\* The sum with five column sums c as a u128, <<low u64, high u64>>.
Split65(c) == <<Low64(c), <<Digit(c, 5), 0, 0, 0>>>>

\* adc(a, b, carry) = a + b + carry as a u128, split <<low u64, high u64>>.
adc(a, b, carry) == Split65(AddColumns(a, b, carry))

\* The difference with the column sums c as a wrapped u128, <<low u64, high
\* u64>>: the high half is all ones after an underflow.
SplitWrap(c) == <<Low64(c), IF Digit(c, 5) = 0 THEN UMAX ELSE U0>>

\* sbb(a, b, borrow) = a - (b + (borrow >> 63)) wrapping in u128, split
\* <<low u64, high u64>>.
sbb(a, b, borrow) == SplitWrap(DiffColumns(a, b, borrow[4] \div 32768))

\* The sum with eight column sums c as a u128, <<low u64, high u64>>.
Split128(c) == <<Low64(c), High64(c)>>

\* mac(a, b, c, carry) = a + b * c + carry as a u128, split <<low, high>>.
mac(a, b, c, carry) == Split128(MacColumns(a, carry, b, c))

(***************************************************************************)
(* Field constants                                                         *)
(***************************************************************************)

\* q = 0x30644e72e131a029b85045b68181585d2833e84879b9709143e1f593f0000001
MODULUS ==
  <<H64(\H43e1, \Hf593, \Hf000, \H0001),
    H64(\H2833, \He848, \H79b9, \H7091),
    H64(\Hb850, \H45b6, \H8181, \H585d),
    H64(\H3064, \H4e72, \He131, \Ha029)>>

\* INV = -(q^{-1} mod 2^64) mod 2^64
INV == H64(\Hc2e1, \Hf593, \Hefff, \Hffff)

\* R = 2^256 mod q
R ==
  <<H64(\Hac96, \H341c, \H4fff, \Hfffb),
    H64(\H36fc, \H7695, \H9f60, \Hcd29),
    H64(\H666e, \Ha36f, \H7879, \H462e),
    H64(\H0e0a, \H77c1, \H9a07, \Hdf2f)>>

\* R^2 = 2^512 mod q
R2 ==
  <<H64(\H1bb8, \He645, \Hae21, \H6da7),
    H64(\H53fe, \H3ab1, \He35c, \H59e3),
    H64(\H8c49, \H833d, \H53bb, \H8085),
    H64(\H0216, \Hd0b1, \H7f4e, \H44a5)>>

\* R^3 = 2^768 mod q
R3 ==
  <<H64(\H5e94, \Hd8e1, \Hb4bf, \H0040),
    H64(\H2a48, \H9cbe, \H1cfb, \Hb6b8),
    H64(\H893c, \Hc664, \Ha19f, \Hcfed),
    H64(\H0cf8, \H594b, \H7fcc, \H657c)>>

(***************************************************************************)
(* Field operations of impl Fr                                             *)
(***************************************************************************)

\* Fr::zero()
zero == <<U0, U0, U0, U0>>

\* Fr::one()
one == R

\* The locals of a limb-by-limb chain, L = <<d, carry, carry2>>: d the
\* limbs, carry the running carry or borrow, carry2 the second carry of
\* montgomery_reduce.  Chain(x) is the locals before the first binding of
\* a chain whose first operand is x: limb i of d holds x[i] until d_i is
\* bound.
Chain(x) == <<x, U0, U0>>

\* let (d_i, carry) = m;
Bind(L, i, m) == <<[L[1] EXCEPT ![i] = m[1]], m[2], L[3]>>

\* let (d_i, borrow) = sbb(x[i], y[i], borrow); for the limbs i of y from
\* st[1] on
RECURSIVE sbb_chain(_, _)
sbb_chain(st, y) ==
  IF st[1] > Len(y) THEN st[2]
  ELSE sbb_chain(
         <<st[1] + 1, Bind(st[2], st[1], sbb(st[2][1][st[1]], y[st[1]], st[2][2]))>>, y)

\* let (d_i, carry) = adc(x[i], y[i], carry); for the limbs i of y from
\* st[1] on
RECURSIVE adc_chain(_, _)
adc_chain(st, y) ==
  IF st[1] > Len(y) THEN st[2]
  ELSE adc_chain(
         <<st[1] + 1, Bind(st[2], st[1], adc(st[2][1][st[1]], y[st[1]], st[2][2]))>>, y)

\* [x[0] & w, x[1] & w, x[2] & w, x[3] & w]
mask_limbs(x, w) == <<And64(x[1], w), And64(x[2], w), And64(x[3], w), And64(x[4], w)>>

\* sub with the modulus added back whatever the borrow.
sub_add_always(D) == adc_chain(<<1, Chain(D[1])>>, MODULUS)[1]

\* The second half of Fr::sub: the modulus, masked by the final borrow of
\* the locals D, is added to the difference; the last carry is dropped.
sub_add_back(D) == adc_chain(<<1, Chain(D[1])>>, mask_limbs(MODULUS, D[2]))[1]

\* sub without the modulus added back after a borrow.
sub_no_add_back(self, rhs) == sbb_chain(<<1, Chain(self)>>, rhs)[1]

\* Fr::sub: subtract-with-borrow chain, then add the modulus back, masked
\* by the final borrow.
sub(self, rhs) == sub_add_back(sbb_chain(<<1, Chain(self)>>, rhs))

\* add without the subtraction of the modulus.
add_unreduced(self, rhs) == adc_chain(<<1, Chain(self)>>, rhs)[1]

\* Fr::add: add-with-carry chain (the carry out of limb 3 is dropped), then
\* sub(MODULUS).
add(self, rhs) == sub(adc_chain(<<1, Chain(self)>>, rhs)[1], MODULUS)

\* Fr::double
double(self) == add(self, self)

\* The mask of Fr::neg: 0 when self is zero, all ones otherwise.
neg_mask(self) ==
  wrapping_sub(
    IF Or64(Or64(Or64(self[1], self[2]), self[3]), self[4]) = U0 THEN U1 ELSE U0, U1)

\* neg without the mask for zero.
neg_unmasked(self) == sbb_chain(<<1, Chain(MODULUS)>>, self)[1]

\* Fr::neg: MODULUS - self with the final borrow ignored, masked to zero
\* when self is zero.
neg(self) == mask_limbs(sbb_chain(<<1, Chain(MODULUS)>>, self)[1], neg_mask(self))

(***************************************************************************)
(* montgomery_reduce, mul and square: the locals are r0..r7, carry and     *)
(* carry2, L = <<<<r0, ..., r7>>, carry, carry2>>.                         *)
(***************************************************************************)

\* The locals before the first assignment, r0..r7 given.
Locals(r0, r1, r2, r3, r4, r5, r6, r7) == <<<<r0, r1, r2, r3, r4, r5, r6, r7>>, U0, U0>>

\* let (r_i, carry) = mac(r_i, x, y, carry);
mac_step(L, i, x, y) == Bind(L, i, mac(L[1][i], x, y, L[2]))

\* let (_, carry) = mac(r_i, x, y, 0);
mac_drop(L, i, x, y) == <<L[1], mac(L[1][i], x, y, U0)[2], L[3]>>

\* The high half of a row's last mac is bound to r_i, not to carry; the
\* next row starts with the carry 0:  let (r_{i-1}, r_i) = mac(...);
row_end(L, i) == <<[L[1] EXCEPT ![i] = L[2]], U0, L[3]>>

\* let (r_i, carry) = adc(0, r_i, carry);
adc_step(L, i) == Bind(L, i, adc(U0, L[1][i], L[2]))

\* let (r_i, carry2) = m;
Bind2(L, i, m) == <<[L[1] EXCEPT ![i] = m[1]], L[2], m[2]>>

\* let (r_i, carry2) = adc(r_i, carry2, carry);
adc_carry2(L, i) == Bind2(L, i, adc(L[1][i], L[3], L[2]))

\* let (r_{i+j}, carry) = mac(r_{i+j}, k, MODULUS.0[j], carry); for j = 1, 2, 3
RECURSIVE reduce_macs(_, _, _)
reduce_macs(st, i, k) ==
  IF st[1] > Len(MODULUS) THEN st[2]
  ELSE reduce_macs(<<st[1] + 1, mac_step(st[2], i + st[1] - 1, k, MODULUS[st[1]])>>, i, k)

\* One reduction pass of Fr::montgomery_reduce (HAC 14.32) on limb i:
\* k = r_i * INV, then r_i..r_{i+3} += k * MODULUS, the carry added to
\* r_{i+4} together with carry2.
reduce_pass(L, i, k) ==
  adc_carry2(reduce_macs(<<2, mac_drop(L, i, k, MODULUS[1])>>, i, k), i + 4)

\* The passes st[1], ..., 4, one for each limb of the modulus.
RECURSIVE reduce_passes(_)
reduce_passes(st) ==
  IF st[1] > Len(MODULUS) THEN st[2]
  ELSE reduce_passes(
         <<st[1] + 1, reduce_pass(st[2], st[1], wrapping_mul(st[2][1][st[1]], INV))>>)

\* The locals after the last pass as <<r4, r5, r6, r7, carry2>>.
passes_out(L) == <<L[1][5], L[1][6], L[1][7], L[1][8], L[3]>>

\* The first four of these: r4, r5, r6, r7.
top_limbs(t) == <<t[1], t[2], t[3], t[4]>>

\* The four passes of Fr::montgomery_reduce, up to but not including the
\* final sub(MODULUS): <<r4, r5, r6, r7, c>> where c is the carry out of the
\* last adc, which the source discards.
montgomery_passes(r0, r1, r2, r3, r4, r5, r6, r7) ==
  passes_out(reduce_passes(<<1, Locals(r0, r1, r2, r3, r4, r5, r6, r7)>>))

\* montgomery_reduce without the final subtraction of the modulus.
montgomery_unreduced(r0, r1, r2, r3, r4, r5, r6, r7) ==
  top_limbs(montgomery_passes(r0, r1, r2, r3, r4, r5, r6, r7))

\* Fr::montgomery_reduce: the passes, then sub(MODULUS) of the top four limbs.
montgomery_reduce(r0, r1, r2, r3, r4, r5, r6, r7) ==
  sub(top_limbs(montgomery_passes(r0, r1, r2, r3, r4, r5, r6, r7)), MODULUS)

\* Fr::montgomery_reduce(r0, ..., r7) on the eight limbs w.
reduce_wide(w) == montgomery_reduce(w[1], w[2], w[3], w[4], w[5], w[6], w[7], w[8])

\* let (r_{i+j}, carry) = mac(r_{i+j}, self.0[i], rhs.0[j], carry); for j
\* from st[1] to 3 (limbs counted from 0), the last carry bound to r_{i+4}.
RECURSIVE row_macs(_, _, _, _)
row_macs(st, i, x, rhs) ==
  IF st[1] > Len(rhs) THEN row_end(st[2], i + 4)
  ELSE row_macs(<<st[1] + 1, mac_step(st[2], i + st[1] - 1, x, rhs[st[1]])>>, i, x, rhs)

\* The rows of the schoolbook multiplication of Fr::mul, one for each limb
\* of self.
RECURSIVE mul_rows(_, _, _)
mul_rows(st, self, rhs) ==
  IF st[1] > Len(self) THEN st[2]
  ELSE mul_rows(<<st[1] + 1, row_macs(<<1, st[2]>>, st[1], self[st[1]], rhs)>>, self, rhs)

\* The 8-limb schoolbook product of Fr::mul, <<r0, ..., r7>>.
mul_wide(self, rhs) ==
  mul_rows(<<1, Locals(U0, U0, U0, U0, U0, U0, U0, U0)>>, self, rhs)[1]

\* Fr::mul
mul(self, rhs) == reduce_wide(mul_wide(self, rhs))

\* The off-diagonal products of Fr::square, each computed once: row i is
\* self.0[i] times the limbs above it.
RECURSIVE square_cross(_, _)
square_cross(st, self) ==
  IF st[1] > Len(self) - 1 THEN st[2]
  ELSE square_cross(
         <<st[1] + 1, row_macs(<<st[1] + 1, st[2]>>, st[1], self[st[1]], self)>>, self)

\* The doubling with the top bit of each limb lost.
square_shift_nocarry(L) ==
  <<<<L[1][1], Shl1(L[1][2]), Shl1(L[1][3]), Shl1(L[1][4]), Shl1(L[1][5]),
      Shl1(L[1][6]), Shl1(L[1][7]), U0>>, U0, L[3]>>

\* The doubling of Fr::square: a one-bit left shift across r1..r7.
square_shift(L) ==
  <<<<L[1][1],
      Shl1(L[1][2]),
      Or64(Shl1(L[1][3]), Shr63(L[1][2])),
      Or64(Shl1(L[1][4]), Shr63(L[1][3])),
      Or64(Shl1(L[1][5]), Shr63(L[1][4])),
      Or64(Shl1(L[1][6]), Shr63(L[1][5])),
      Or64(Shl1(L[1][7]), Shr63(L[1][6])),
      Shr63(L[1][7])>>, U0, L[3]>>

\* The diagonal products of Fr::square added in:
\* let (r_{2i}, carry) = mac(r_{2i}, self.0[i], self.0[i], carry);
\* let (r_{2i+1}, carry) = adc(0, r_{2i+1}, carry);
RECURSIVE square_diag(_, _)
square_diag(st, self) ==
  IF st[1] > Len(self) THEN st[2]
  ELSE square_diag(
         <<st[1] + 1,
           adc_step(mac_step(st[2], 2 * st[1] - 1, self[st[1]], self[st[1]]), 2 * st[1])>>,
         self)

\* The 8-limb square of Fr::square, <<r0, ..., r7>>: cross terms once,
\* doubled by a one-bit shift, then the diagonal terms.
square_wide(self) ==
  square_diag(
    <<1, square_shift(square_cross(<<1, Locals(U0, U0, U0, U0, U0, U0, U0, U0)>>, self))>>,
    self)[1]

\* Fr::square
square(self) == reduce_wide(square_wide(self))

\* Fr::from_raw
from_raw(val) == mul(val, R2)

\* ConstantTimeEq::ct_eq
ct_eq(self, other) ==
  /\ self[1] = other[1]
  /\ self[2] = other[2]
  /\ self[3] = other[3]
  /\ self[4] = other[4]

\* The body of the bit loop of ff::Field::pow is two statements, res =
\* res.square() and, when bit i of the limb e is set, res.mul_assign(self).
\* They are numbered from 2 * i + 1 (the squaring) down to 2 * i (the
\* multiplication); pow_step is statement s applied to res.
pow_step(res, self, e, s) ==
  IF s % 2 = 1 THEN square(res)
  ELSE IF Bit(e, s \div 2) = 1 THEN mul(res, self)
  ELSE res

\* The inner loop of pow, for i in (0..64).rev(), as the statements hi,
\* hi - 1, ..., lo in this order.  The loop state is <<hi, lo, res>>; a
\* range of more than one statement is run as its upper half, then its
\* lower half on the result.
RECURSIVE pow_bits(_, _, _)
pow_bits(st, self, e) ==
  IF st[1] = st[2] THEN pow_step(st[3], self, e, st[1])
  ELSE pow_bits(
         <<((st[1] + st[2] + 1) \div 2) - 1, st[2],
           pow_bits(<<st[1], (st[1] + st[2] + 1) \div 2, st[3]>>, self, e)>>, self, e)

\* The outer loop of pow over the limbs st[1], ..., 1 of exp, each from
\* the squaring of bit 63 down to the multiplication of bit 0.  The loop
\* state is the pair <<limb, res>>.
RECURSIVE pow_limbs(_, _, _)
pow_limbs(st, self, exp) ==
  IF st[1] < 1 THEN st[2]
  ELSE pow_limbs(<<st[1] - 1, pow_bits(<<127, 0, st[2]>>, self, exp[st[1]])>>, self, exp)

\* ff::Field::pow(exp), exp least significant limb first: the limbs are
\* visited in reverse.
pow(self, exp) == pow_limbs(<<Len(exp), one>>, self, exp)

\* The exponent with the 2 not subtracted: q itself.
InvertExpQ == MODULUS

\* The exponent q - 2 of Field::invert.
InvertExp ==
  <<H64(\H43e1, \Hf593, \Hefff, \Hffff),
    H64(\H2833, \He848, \H79b9, \H7091),
    H64(\Hb850, \H45b6, \H8181, \H585d),
    H64(\H3064, \H4e72, \He131, \Ha029)>>

\* Field::invert as a CtOption: <<value, is_some>>.
invert(self) == <<pow(self, InvertExp), ~ct_eq(self, zero)>>

\* The body of the bit loop without found_one = true.
vartime_step_noflag(S, self, e, s) ==
  IF s % 2 = 1 THEN (IF S[2] THEN <<square(S[1]), TRUE>> ELSE S)
  ELSE IF Bit(e, s \div 2) = 1 THEN <<mul(S[1], self), S[2]>>
  ELSE S

\* The body of the bit loop of Field::pow_vartime on the locals S = <<res,
\* found_one>>, as two statements numbered as in pow_step: statement
\* 2 * i + 1 is  if found_one { res = res.square() }  and statement 2 * i is
\* if ((*e >> i) & 1) == 1 { found_one = true; res *= self }.
vartime_step(S, self, e, s) ==
  IF s % 2 = 1 THEN (IF S[2] THEN <<square(S[1]), TRUE>> ELSE S)
  ELSE IF Bit(e, s \div 2) = 1 THEN <<mul(S[1], self), TRUE>>
  ELSE S

\* The inner loop of pow_vartime, for i in (0..64).rev(), as the
\* statements hi, hi - 1, ..., lo; the loop state is <<hi, lo, S>>, and a
\* range of more than one statement is run as its upper half, then its
\* lower half.
RECURSIVE vartime_bits(_, _, _)
vartime_bits(st, self, e) ==
  IF st[1] = st[2] THEN vartime_step(st[3], self, e, st[1])
  ELSE vartime_bits(
         <<((st[1] + st[2] + 1) \div 2) - 1, st[2],
           vartime_bits(<<st[1], (st[1] + st[2] + 1) \div 2, st[3]>>, self, e)>>, self, e)

\* The outer loop of pow_vartime, for e in exp.as_ref().iter().rev(): the
\* limbs st[1], st[1] - 1, ..., 1 of exp.  The loop state is <<limb, S>>.
RECURSIVE vartime_limbs(_, _, _)
vartime_limbs(st, self, exp) ==
  IF st[1] < 1 THEN st[2][1]
  ELSE vartime_limbs(
         <<st[1] - 1, vartime_bits(<<127, 0, st[2]>>, self, exp[st[1]])>>, self, exp)

\* Field::pow_vartime
pow_vartime(self, exp) == vartime_limbs(<<Len(exp), <<one, FALSE>>>>, self, exp)

\* from_u512 with both halves multiplied by R2.
from_u512_R2(limbs) ==
  add(mul(<<limbs[1], limbs[2], limbs[3], limbs[4]>>, R2),
      mul(<<limbs[5], limbs[6], limbs[7], limbs[8]>>, R2))

\* Fr::from_u512: the low half times R2 plus the high half times R3.
from_u512(limbs) ==
  add(mul(<<limbs[1], limbs[2], limbs[3], limbs[4]>>, R2),
      mul(<<limbs[5], limbs[6], limbs[7], limbs[8]>>, R3))

\* BaseExt::from_u64
from_u64(v) == from_raw(<<v, U0, U0, U0>>)

\* BaseExt::from_u128, v given as <<low u64, high u64>>
from_u128(v) == from_raw(<<v[1], v[2], U0, U0>>)

\* u64::from_le_bytes on eight bytes
from_le_bytes(bs) ==
  <<bs[1] + 256 * bs[2], bs[3] + 256 * bs[4], bs[5] + 256 * bs[6], bs[7] + 256 * bs[8]>>

\* u64::to_le_bytes
to_le_bytes(x) ==
  <<x[1] % 256, x[1] \div 256, x[2] % 256, x[2] \div 256,
    x[3] % 256, x[3] \div 256, x[4] % 256, x[4] \div 256>>

\* The limbs tmp that BaseExt::from_bytes reads from the 32 bytes.
bytes_to_limbs(bytes) ==
  <<from_le_bytes(SubSeq(bytes, 1, 8)),
    from_le_bytes(SubSeq(bytes, 9, 16)),
    from_le_bytes(SubSeq(bytes, 17, 24)),
    from_le_bytes(SubSeq(bytes, 25, 32))>>

\* is_some of BaseExt::from_bytes: (borrow as u8) & 1, borrow the last
\* borrow of tmp - MODULUS.
is_some(tmp) == ((sbb_chain(<<1, Chain(tmp)>>, MODULUS)[2][1]) % 256) % 2

\* from_bytes multiplying by R in place of R2.
limbs_to_option_R(tmp) == <<mul(tmp, R), is_some(tmp) = 1>>

\* BaseExt::from_bytes after tmp is read: tmp *= R2, present when is_some.
limbs_to_option(tmp) == <<mul(tmp, R2), is_some(tmp) = 1>>

\* BaseExt::from_bytes as a CtOption: <<value, is_some>>.
from_bytes(bytes) == limbs_to_option(bytes_to_limbs(bytes))

\* The 32 bytes that BaseExt::to_bytes copies from the limbs tmp.
limbs_to_bytes(tmp) ==
  to_le_bytes(tmp[1]) \o to_le_bytes(tmp[2]) \o to_le_bytes(tmp[3]) \o to_le_bytes(tmp[4])

\* to_bytes copying the stored limbs as they are.
to_bytes_stored(self) == limbs_to_bytes(self)

\* BaseExt::to_bytes
to_bytes(self) ==
  limbs_to_bytes(montgomery_reduce(self[1], self[2], self[3], self[4], U0, U0, U0, U0))

\* The eight limbs that BaseExt::from_bytes_wide reads from the 64 bytes.
bytes_to_wide(bytes) ==
  <<from_le_bytes(SubSeq(bytes, 1, 8)),
    from_le_bytes(SubSeq(bytes, 9, 16)),
    from_le_bytes(SubSeq(bytes, 17, 24)),
    from_le_bytes(SubSeq(bytes, 25, 32)),
    from_le_bytes(SubSeq(bytes, 33, 40)),
    from_le_bytes(SubSeq(bytes, 41, 48)),
    from_le_bytes(SubSeq(bytes, 49, 56)),
    from_le_bytes(SubSeq(bytes, 57, 64))>>

\* BaseExt::from_bytes_wide
from_bytes_wide(bytes) == from_u512(bytes_to_wide(bytes))

(***************************************************************************)
(* The inline-assembly addition (asm/src/arithmetic.rs).  The machine      *)
(* state is X = <<regs, CF>>: regs the registers r8..r15 (regs[1] is r8),  *)
(* each a u64, and the carry flag CF, 0 or 1.  An instruction is a step on *)
(* X.                                                                      *)
(***************************************************************************)

\* A register and the flag are written: m = <<value, CF>>.
SetReg(X, d, m) == <<[X[1] EXCEPT ![d] = m[1]], m[2]>>

\* The sum with five column sums c as <<u64, carry out>>.
SumCF(c) == <<Low64(c), Digit(c, 5)>>

\* The difference with the column sums c as <<u64, borrow out>>.
DiffCF(c) == <<Low64(c), 1 - Digit(c, 5)>>

\* add dst, src
x86_add(X, d, src) == SetReg(X, d, SumCF(AddColumns(X[1][d], src, U0)))

\* adc dst, src
x86_adc(X, d, src) == SetReg(X, d, SumCF(AddColumns(X[1][d], src, <<X[2], 0, 0, 0>>)))

\* sub dst, src; CF is the borrow out
x86_sub(X, d, src) == SetReg(X, d, DiffCF(DiffColumns(X[1][d], src, 0)))

\* sbb dst, src; CF is the borrow out
x86_sbb(X, d, src) == SetReg(X, d, DiffCF(DiffColumns(X[1][d], src, X[2])))

\* mov dst, src (register to register; the flags are left alone)
x86_mov(X, d, s) == <<[X[1] EXCEPT ![d] = X[1][s]], X[2]>>

\* The move made when the carry flag is clear.
x86_cmovnc(X, d, s) == IF X[2] = 0 THEN SetReg(X, d, X[1][s]) ELSE X

\* cmovc dst, src
x86_cmovc(X, d, s) == IF X[2] = 1 THEN x86_mov(X, d, s) ELSE X

\* let modulus: &[u64; 4], the local of arithmetic::add
modulus ==
  <<H64(\H43e1, \Hf593, \Hf000, \H0001),
    H64(\H2833, \He848, \H79b9, \H7091),
    H64(\Hb850, \H45b6, \H8181, \H585d),
    H64(\H3064, \H4e72, \He131, \Ha029)>>

\* mov r8..r11, qword ptr [a_ptr + ...]: the machine state after the loads.
\* r12..r15 and CF are written before they are read; they start as 0 here.
asm_load(a) == <<<<a[1], a[2], a[3], a[4], U0, U0, U0, U0>>, 0>>

\* add r8, [b]; adc r9, [b + 8]; adc r10, [b + 16]; adc r11, [b + 24]
asm_sum(X, b) == x86_adc(x86_adc(x86_adc(x86_add(X, 1, b[1]), 2, b[2]), 3, b[3]), 4, b[4])

\* mov r12, r8; mov r13, r9; mov r14, r10; mov r15, r11
asm_copy(X) == x86_mov(x86_mov(x86_mov(x86_mov(X, 5, 1), 6, 2), 7, 3), 8, 4)

\* sub r12, [m]; sbb r13, [m + 8]; sbb r14, [m + 16]; sbb r15, [m + 24]
asm_reduce(X, m) == x86_sbb(x86_sbb(x86_sbb(x86_sub(X, 5, m[1]), 6, m[2]), 7, m[3]), 8, m[4])

\* No selection: r12..r15 stay the difference.
asm_unselected(X) == X

\* cmovc r12, r8; cmovc r13, r9; cmovc r14, r10; cmovc r15, r11
asm_select(X) == x86_cmovc(x86_cmovc(x86_cmovc(x86_cmovc(X, 5, 1), 6, 2), 7, 3), 8, 4)

\* [r0, r1, r2, r3], bound to r12..r15
asm_out(X) == <<X[1][5], X[1][6], X[1][7], X[1][8]>>

\* arithmetic::add: the asm! block on a, b and the local modulus.
asm_add(a, b) == asm_out(asm_select(asm_reduce(asm_copy(asm_sum(asm_load(a), b)), modulus)))

(***************************************************************************)
(* Unsigned integers for stating the properties: a natural number is the   *)
(* sequence of its base-65536 digits, least significant first.  These      *)
(* definitions are the arithmetic the properties speak of; nothing below   *)
(* in this section is taken from the program.                              *)
(***************************************************************************)

\* The integer that limbs (four or eight u64) hold, limb 0 least significant.
RECURSIVE Flat(_)
Flat(x) == IF x = <<>> THEN <<>> ELSE Head(x) \o Flat(Tail(x))

\* The 4-limb value with the 16 digits u.
Unflat(u) == <<SubSeq(u, 1, 4), SubSeq(u, 5, 8), SubSeq(u, 9, 12), SubSeq(u, 13, 16)>>

\* u with zero digits added on top, to n digits.
Pad(u, n) == [i \in 1..n |-> IF i <= Len(u) THEN u[i] ELSE 0]

\* The number k < 65536 on n digits.
Small(k, n) == [i \in 1..n |-> IF i = 1 THEN k ELSE 0]

RECURSIVE NLessAt(_, _, _)
NLessAt(u, v, i) ==
  IF i = 0 THEN FALSE
  ELSE IF u[i] # v[i] THEN u[i] < v[i]
  ELSE NLessAt(u, v, i - 1)

\* u < v
NLess(u, v) ==
  IF Len(u) = Len(v) THEN NLessAt(u, v, Len(u))
  ELSE IF Len(u) < Len(v) THEN NLessAt(Pad(u, Len(v)), v, Len(v))
  ELSE NLessAt(u, Pad(v, Len(u)), Len(u))

\* u = v as numbers
NEq(u, v) == ~NLess(u, v) /\ ~NLess(v, u)

\* The loop state after the digit sum s: <<next digit, carry, digits so far>>.
NPut(st, s) == <<st[1] + 1, s \div 65536, Append(st[3], s % 65536)>>

\* The loop of NAdd over equally long u and v.
RECURSIVE NAddLoop(_, _, _)
NAddLoop(st, u, v) ==
  IF st[1] > Len(u) THEN Append(st[3], st[2])
  ELSE NAddLoop(NPut(st, u[st[1]] + v[st[1]] + st[2]), u, v)

\* u + v, one digit longer than the longer of the two
NAdd(u, v) ==
  IF Len(u) = Len(v) THEN NAddLoop(<<1, 0, <<>>>>, u, v)
  ELSE IF Len(u) < Len(v) THEN NAddLoop(<<1, 0, <<>>>>, Pad(u, Len(v)), v)
  ELSE NAddLoop(<<1, 0, <<>>>>, u, Pad(v, Len(u)))

\* The loop of NSub; the state is <<next digit, carry (0 or -1), digits so far>>.
RECURSIVE NSubLoop(_, _, _)
NSubLoop(st, u, v) ==
  IF st[1] > Len(u) THEN st[3]
  ELSE NSubLoop(NPut(st, u[st[1]] - v[st[1]] + st[2]), u, v)

\* u - v for u >= v, on the digits of u
NSub(u, v) ==
  IF Len(u) = Len(v) THEN NSubLoop(<<1, 0, <<>>>>, u, v)
  ELSE NSubLoop(<<1, 0, <<>>>>, u, Pad(v, Len(u)))

\* The modulus q as a number.
P == Flat(MODULUS)

\* 2 * q
TwoP == NAdd(P, P)

\* u mod q, on 16 digits, by repeated subtraction (u is a small multiple of q)
RECURSIVE NModP(_)
NModP(u) == IF NLess(u, P) THEN Pad(u, 16) ELSE NModP(NSub(u, P))

\* q on 17 digits
P17 == Pad(P, 17)

\* s mod q for a 17-digit s < 2 * q, on 16 digits
SubP17(s) ==
  IF NLessAt(s, P17, 17) THEN SubSeq(s, 1, 16)
  ELSE SubSeq(NSubLoop(<<1, 0, <<>>>>, s, P17), 1, 16)

\* (u + v) mod q for u, v < q, on 16 digits
AddModP(u, v) == SubP17(NAdd(u, v))

\* (u * 2^n) mod q for u < q and n a power of two, by n doublings; the loop
\* state is <<n, u>>, and n > 1 doublings are n / 2 doublings twice.
RECURSIVE ShlModP(_)
ShlModP(st) ==
  IF st[1] = 1 THEN AddModP(st[2], st[2])
  ELSE ShlModP(<<st[1] \div 2, ShlModP(<<st[1] \div 2, st[2]>>)>>)

\* (u * 2^256) mod q for u < q: the Montgomery form of u
MontP(u) == ShlModP(<<256, u>>)

\* (acc * 2^16 + u * d) mod q for acc, u < q and a digit d: double and add
\* over the bits of d, top bit first; the loop state is <<i, acc>>.
RECURSIVE MulDigitModP(_, _, _)
MulDigitModP(st, u, d) ==
  IF st[1] < 0 THEN st[2]
  ELSE MulDigitModP(
         <<st[1] - 1,
           IF (d \div (2 ^ st[1])) % 2 = 1
           THEN AddModP(AddModP(st[2], st[2]), u)
           ELSE AddModP(st[2], st[2])>>, u, d)

\* The loop over the digits of v, top digit first; the state is <<k, acc>>.
RECURSIVE MulModPFrom(_, _, _)
MulModPFrom(st, u, v) ==
  IF st[1] < 1 THEN st[2]
  ELSE MulModPFrom(<<st[1] - 1, MulDigitModP(<<15, st[2]>>, u, v[st[1]])>>, u, v)

\* (u * v) mod q for u < q and any v
MulModP(u, v) == MulModPFrom(<<Len(v), Small(0, 16)>>, u, v)

\* The middle terms of the product of two digits x and y split into bytes.
NProdMid(x, y) == (x % 256) * (y \div 256) + (x \div 256) * (y % 256)

\* The low terms: the low bytes' product and the low byte of the middle.
NProdLow(x, y) == (x % 256) * (y % 256) + (NProdMid(x, y) % 256) * 256

\* x * y for two digits as <<low digit, high digit>>
NProd(x, y) ==
  <<NProdLow(x, y) % 65536,
    (NProdLow(x, y) \div 65536) + (NProdMid(x, y) \div 256) + (x \div 256) * (y \div 256)>>

\* The loop state after the product m = <<low, high>> of a digit of u and d:
\* <<next digit, carry, digits so far>>.
NMulPut(st, m) ==
  <<st[1] + 1, m[2] + ((m[1] + st[2]) \div 65536), Append(st[3], (m[1] + st[2]) % 65536)>>

\* u * d for a digit d, one digit longer than u
RECURSIVE NMulDigitLoop(_, _, _)
NMulDigitLoop(st, u, d) ==
  IF st[1] > Len(u) THEN Append(st[3], st[2])
  ELSE NMulDigitLoop(NMulPut(st, NProd(u[st[1]], d)), u, d)

\* The row u * v[k] * 65536^(k-1) of the product, on n digits.
NMulRow(u, v, k, n) == Pad(Small(0, k - 1) \o NMulDigitLoop(<<1, 0, <<>>>>, u, v[k]), n)

\* The sum of the rows k, k + 1, ... ; the loop state is <<k, sum so far>>.
RECURSIVE NMulRows(_, _, _)
NMulRows(st, u, v) ==
  IF st[1] > Len(v) THEN st[2]
  ELSE NMulRows(
         <<st[1] + 1,
           SubSeq(NAddLoop(<<1, 0, <<>>>>, st[2], NMulRow(u, v, st[1], Len(st[2]))),
                  1, Len(st[2]))>>, u, v)

\* u * v on Len(u) + Len(v) digits
NMul(u, v) == NMulRows(<<1, Small(0, Len(u) + Len(v))>>, u, v)

\* The 32 bytes that encode u < 2^256, least significant byte first.
NatBytes(u) ==
  [i \in 1..32 |-> IF i % 2 = 1 THEN u[(i + 1) \div 2] % 256 ELSE u[i \div 2] \div 256]

\* The number that 32 bytes encode, least significant byte first.
BytesNat(bs) == [k \in 1..16 |-> bs[2 * k - 1] + 256 * bs[2 * k]]

\* x, read as an unsigned integer, is strictly less than q
Canon(x) == NLess(Flat(x), P)

(***************************************************************************)
(* Bounds and inputs                                                       *)
(***************************************************************************)

\* Inputs are taken at distance 0..MaxOff from 0, q and 2^256 - 1.
MaxOff == 2

\* The longest sequence of operations applied to a constructed element.
MaxSteps == 2

\* The limbs of an exponent are taken from 0..MaxExp.
MaxExp == 3

\* 2^256 - 1
TOP == <<UMAX, UMAX, UMAX, UMAX>>

\* The operand a of asembly_tests::add_test and the expected value of
\* test_from_u512.
TEST_A ==
  <<H64(\H7e71, \H40b5, \H196b, \H9e6f),
    H64(\H9aba, \Hc9e4, \H157b, \H6172),
    H64(\Hf04b, \Hc410, \H62fd, \H7322),
    H64(\H1185, \Hfa9c, \H9fef, \H6326)>>

\* A limb of the input of test_from_u512.
LIMB_A == H64(\Haaaa, \Haaaa, \Haaaa, \Haaaa)

\* 4-limb integers: 0 + k, q - 1 - k, q + k, 2^256 - 1 - k for k in
\* 0..MaxOff, and some values in between.
RawInputs ==
  {Unflat(Small(k, 16)) : k \in 0..MaxOff}
    \cup {Unflat(NSub(P, Small(k + 1, 16))) : k \in 0..MaxOff}
    \cup {Unflat(SubSeq(NAdd(P, Small(k, 16)), 1, 16)) : k \in 0..MaxOff}
    \cup {Unflat(NSub(Flat(TOP), Small(k, 16))) : k \in 0..MaxOff}
    \cup {R, R2, TEST_A, <<LIMB_A, LIMB_A, LIMB_A, LIMB_A>>}

\* The inputs that are less than q: each is the stored form of an element.
CanonInputs == {x \in RawInputs : Canon(x)}

\* 8-limb integers for from_u512.
WideInputs ==
  {<<LIMB_A, LIMB_A, LIMB_A, LIMB_A, LIMB_A, LIMB_A, LIMB_A, LIMB_A>>,
   <<UMAX, UMAX, UMAX, UMAX, UMAX, UMAX, UMAX, UMAX>>}

\* 32-byte inputs: the encodings of RawInputs, and every single byte set
\* to 1, 128 or 255.
ByteInputs ==
  {NatBytes(Flat(x)) : x \in RawInputs}
    \cup {[i \in 1..32 |-> IF i = k THEN c ELSE 0] : k \in 1..32, c \in {1, 128, 255}}

\* The u64 k < 65536.
Limb(k) == <<k, 0, 0, 0>>

\* Exponents for pow_vartime: one limb; two limbs, the second 0; and two
\* limbs, the second 1 (64 squarings, so only one of these).
PowExps ==
  {<<Limb(k)>> : k \in 0..MaxExp}
    \cup {<<Limb(k), Limb(0)>> : k \in 0..MaxExp}
    \cup {<<Limb(MaxExp), Limb(1)>>}

\* The elements the constructors give: zero, one, from_raw, from_u64,
\* from_u128, a present from_bytes, from_u512.
Constructed ==
  {zero, one}
    \cup {from_raw(x) : x \in RawInputs}
    \cup {from_u64(UMAX), from_u128(<<UMAX, UMAX>>)}
    \cup {fb[1] : fb \in {f \in {from_bytes(NatBytes(Flat(x))) : x \in RawInputs} : f[2]}}
    \cup {from_u512(w) : w \in WideInputs}

(***************************************************************************)
(* State                                                                   *)
(***************************************************************************)

VARIABLES
  op,       \* the operation that acted last, "new" before any
  a,        \* its first operand (4 limbs)
  b,        \* its second operand (4 limbs)
  r,        \* its result (4 limbs)
  present,  \* is_some of a CtOption result
  bytes,    \* the 32 bytes given to from_bytes, the 64 given to from_bytes_wide
  out,      \* the 32 bytes to_bytes returned
  t,        \* the result of a second multiplication
  steps     \* the number of operations applied so far

vars == <<op, a, b, r, present, bytes, out, t, steps>>

NoBytes == [i \in 1..32 |-> 0]

(***************************************************************************)
(* Spec: a field element is constructed, then the public operations are    *)
(* applied to it one after the other.  r is the current element; the       *)
(* second operand of a binary operation is one of the operands of the      *)
(* operation before, or one.  invert, 256 squarings and up to 256          *)
(* multiplications, is applied to the constructed elements.                *)
(***************************************************************************)

Init ==
  /\ op = "new"
  /\ r \in Constructed
  /\ a = r
  /\ b = r
  /\ present = TRUE
  /\ bytes = NoBytes
  /\ out = NoBytes
  /\ t = zero
  /\ steps = 0

Binary(name, res, c) ==
  /\ steps < MaxSteps
  /\ op' = name
  /\ a' = r
  /\ b' = c
  /\ r' = res
  /\ steps' = steps + 1
  /\ UNCHANGED <<present, bytes, out, t>>

Unary(name, res) ==
  /\ steps < MaxSteps
  /\ op' = name
  /\ a' = r
  /\ r' = res
  /\ steps' = steps + 1
  /\ UNCHANGED <<b, present, bytes, out, t>>

Add == \E c \in {a, b, one} : Binary("add", add(r, c), c)

Sub == \E c \in {a, b, one} : Binary("sub", sub(r, c), c)

Mul == \E c \in {a, b, one} : Binary("mul", mul(r, c), c)

Neg == Unary("neg", neg(r))

Double == Unary("double", double(r))

Square == Unary("square", square(r))

Invert ==
  /\ op = "new"
  /\ \E i \in {invert(r)} :
       /\ i[2]
       /\ Unary("invert", i[1])

Next == Add \/ Sub \/ Mul \/ Neg \/ Double \/ Square \/ Invert

Spec == Init /\ [][Next]_vars

(***************************************************************************)
(* SpecFn: each operation as a function of two 4-limb operands.            *)
(***************************************************************************)

InitFn ==
  /\ op = "new"
  /\ a \in RawInputs
  /\ b \in RawInputs
  /\ r = zero
  /\ present = TRUE
  /\ bytes = NoBytes
  /\ out = NoBytes
  /\ t = zero
  /\ steps = 0

Apply(name, res) ==
  /\ op = "new"
  /\ op' = name
  /\ r' = res
  /\ steps' = steps + 1
  /\ UNCHANGED <<a, b, present, bytes, out, t>>

FnAdd == Apply("add", add(a, b))

FnSub == Apply("sub", sub(a, b))

FnNeg == Apply("neg", neg(a))

FnDouble == Apply("double", double(a))

FnMul == Apply("mul", mul(a, b))

FnSquare == Apply("square", square(a))

FnAsmAdd == Apply("asm_add", asm_add(a, b))

NextFn == FnAdd \/ FnSub \/ FnNeg \/ FnDouble \/ FnMul \/ FnSquare \/ FnAsmAdd

SpecFn == InitFn /\ [][NextFn]_vars

(***************************************************************************)
(* SpecBytes: 32 bytes are decoded, and a present result encoded again.    *)
(***************************************************************************)

InitBytes ==
  /\ op = "new"
  /\ bytes \in ByteInputs
  /\ a = zero
  /\ b = zero
  /\ r = zero
  /\ present = FALSE
  /\ out = NoBytes
  /\ t = zero
  /\ steps = 0

FromBytes ==
  /\ op = "new"
  /\ \E fb \in {from_bytes(bytes)} :
       /\ r' = fb[1]
       /\ present' = fb[2]
  /\ op' = "from_bytes"
  /\ steps' = steps + 1
  /\ UNCHANGED <<a, b, bytes, out, t>>

ToBytes ==
  /\ op = "from_bytes"
  /\ present
  /\ out' = to_bytes(r)
  /\ op' = "to_bytes"
  /\ steps' = steps + 1
  /\ UNCHANGED <<a, b, r, present, bytes, t>>

NextBytes == FromBytes \/ ToBytes

SpecBytes == InitBytes /\ [][NextBytes]_vars

(***************************************************************************)
(* SpecInv: an element b is inverted, then any element a is multiplied by  *)
(* b and by the inverse.                                                   *)
(***************************************************************************)

InitInv ==
  /\ op = "new"
  /\ b \in CanonInputs
  /\ a = zero
  /\ r = zero
  /\ present = FALSE
  /\ bytes = NoBytes
  /\ out = NoBytes
  /\ t = zero
  /\ steps = 0

InvInvert ==
  /\ op = "new"
  /\ \E i \in {invert(b)} :
       /\ r' = i[1]
       /\ present' = i[2]
  /\ op' = "invert"
  /\ steps' = steps + 1
  /\ UNCHANGED <<a, b, bytes, out, t>>

InvMulBack ==
  /\ op = "invert"
  /\ present
  /\ \E x \in Constructed \cup CanonInputs :
       \E xb \in {mul(x, b)} :
         /\ a' = x
         /\ t' = mul(xb, r)
  /\ op' = "mul_back"
  /\ steps' = steps + 1
  /\ UNCHANGED <<b, r, present, bytes, out>>

NextInv == InvInvert \/ InvMulBack

SpecInv == InitInv /\ [][NextInv]_vars

(***************************************************************************)
(* SpecWide: a 512-bit integer, low half a and high half b, is reduced     *)
(* from its eight limbs and from its 64 bytes.                             *)
(***************************************************************************)

InitWide ==
  /\ op = "new"
  /\ a \in RawInputs
  /\ b \in RawInputs
  /\ bytes = NatBytes(Flat(a)) \o NatBytes(Flat(b))
  /\ r = zero
  /\ present = TRUE
  /\ out = NoBytes
  /\ t = zero
  /\ steps = 0

FromU512 ==
  /\ op = "new"
  /\ r' = from_u512(a \o b)
  /\ op' = "from_u512"
  /\ steps' = steps + 1
  /\ UNCHANGED <<a, b, present, bytes, out, t>>

FromBytesWide ==
  /\ op = "new"
  /\ r' = from_bytes_wide(bytes)
  /\ op' = "from_bytes_wide"
  /\ steps' = steps + 1
  /\ UNCHANGED <<a, b, present, bytes, out, t>>

NextWide == FromU512 \/ FromBytesWide

SpecWide == InitWide /\ [][NextWide]_vars

(***************************************************************************)
(* SpecPow: the element a that from_bytes gives for the encoding of an     *)
(* integer less than q is raised to the exponent b, a sequence of limbs.   *)
(***************************************************************************)

InitPow ==
  /\ op = "new"
  /\ bytes \in {NatBytes(Flat(x)) : x \in CanonInputs}
  /\ a = from_bytes(bytes)[1]
  /\ b \in PowExps
  /\ r = zero
  /\ present = TRUE
  /\ out = NoBytes
  /\ t = zero
  /\ steps = 0

PowVartime ==
  /\ op = "new"
  /\ r' = pow_vartime(a, b)
  /\ op' = "pow_vartime"
  /\ steps' = steps + 1
  /\ UNCHANGED <<a, b, present, bytes, out, t>>

NextPow == PowVartime

SpecPow == InitPow /\ [][NextPow]_vars

(***************************************************************************)
(* Properties                                                              *)
(***************************************************************************)

\* The 8-limb product of a and b after the four reduction passes of
\* montgomery_reduce: <<r4, r5, r6, r7, carry out of the last adc>>.
mul_passes(w) == montgomery_passes(w[1], w[2], w[3], w[4], w[5], w[6], w[7], w[8])

\* C1 (Spec): from constructed elements, after any sequence of add, sub,
\* neg, double, mul, square and a present invert, the result and the
\* operands, read as unsigned integers, are strictly less than q.
CanonicalRange == Canon(r) /\ Canon(a) /\ Canon(b)

\* A subtraction that borrowed (the minuend is less than the subtrahend)
\* after another operation.
CanonicalRangeWitness ==
  /\ op = "sub"
  /\ steps > 1
  /\ NLess(Flat(a), Flat(b))
  /\ Canon(r)

\* C2 (SpecBytes): from_bytes is present exactly when the integer the 32
\* bytes encode is less than q, and a present result is the Montgomery form
\* of that integer.
FromBytesCanonical ==
  op # "new" =>
    /\ present <=> NLess(BytesNat(bytes), P)
    /\ present => Flat(r) = MontP(BytesNat(bytes))

\* The encoding of q - 1 is present.
FromBytesWitness ==
  /\ op = "from_bytes"
  /\ BytesNat(bytes) = NSub(P, Small(1, 16))
  /\ present

\* C3 (SpecBytes): to_bytes of the element from_bytes gives for the
\* encoding of an integer less than q is that encoding.
ByteRoundTrip ==
  (op = "to_bytes" /\ NLess(BytesNat(bytes), P)) => out = bytes

\* The round trip of an encoding with all four limbs nonzero.
ByteRoundTripWitness ==
  /\ op = "to_bytes"
  /\ bytes = NatBytes(Flat(TEST_A))
  /\ out = bytes

\* C4 (SpecInv): invert(b) is absent exactly when b is zero, and for b not
\* zero mul(mul(a, b), invert(b)) is a.
InvertInverse ==
  /\ op # "new" => (present <=> b # zero)
  /\ op = "mul_back" => t = a

\* a was multiplied by b and by the inverse of b, neither zero nor one.
InvertInverseWitness ==
  /\ op = "mul_back"
  /\ a \notin {zero, one}
  /\ b \notin {zero, one}
  /\ r # b
  /\ t = a

\* C5 (SpecFn): for a and b less than q, add(a, b) is (a + b) mod q, and
\* zero when a + b is q.
AddModular ==
  (op = "add" /\ Canon(a) /\ Canon(b)) =>
    /\ Flat(r) = AddModP(Flat(a), Flat(b))
    /\ NAdd(Flat(a), Flat(b)) = P17 => r = zero

\* add(q - 1, 1) is zero.
AddModularWitness ==
  /\ op = "add"
  /\ Flat(a) = NSub(P, Small(1, 16))
  /\ Flat(b) = Small(1, 16)
  /\ r = zero

\* C6 as stated (SpecFn): for any two 4-limb operands the assembly add
\* returns (a + b) mod q, a value less than q.
AsmAddAnyOperands ==
  op = "asm_add" =>
    /\ Canon(r)
    /\ Flat(r) = NModP(NAdd(Flat(a), Flat(b)))

\* C6 amended (SpecFn): for two 4-limb operands with a + b < 2q the
\* assembly add returns (a + b) mod q, a value less than q.
AsmAddModular ==
  (op = "asm_add" /\ NLess(NAdd(Flat(a), Flat(b)), TwoP)) =>
    /\ Canon(r)
    /\ Flat(r) = NModP(NAdd(Flat(a), Flat(b)))

\* The assembly add of an element and q, as in add_test.
AsmAddModularWitness ==
  /\ op = "asm_add"
  /\ Canon(a)
  /\ a # zero
  /\ Flat(b) = P
  /\ r = a

\* C7 (SpecFn): on any two 4-limb operands the assembly add returns the
\* limbs that Fr::add returns.
AsmAddEquivalent == op = "asm_add" => r = add(a, b)

\* Operands that are not less than q and whose sum carries out of the top
\* limb.
AsmAddEquivalentWitness ==
  /\ op = "asm_add"
  /\ ~Canon(a)
  /\ ~Canon(b)
  /\ NAdd(Flat(a), Flat(b))[17] = 1

\* C8 (SpecFn): for a and b less than q, sub(add(a, b), b) is a, add(a,
\* zero) is a, and add(a, neg(a)) is zero.
AdditiveGroupLaws ==
  /\ (op = "add" /\ Canon(a) /\ Canon(b)) => sub(r, b) = a
  /\ (op = "add" /\ Canon(a) /\ b = zero) => r = a
  /\ (op = "neg" /\ Canon(a)) => add(a, r) = zero

\* A sum that was reduced by q, b not zero.
AdditiveGroupLawsWitness ==
  /\ op = "add"
  /\ Canon(a)
  /\ Canon(b)
  /\ b # zero
  /\ ~NLess(NAdd(Flat(a), Flat(b)), P17)
  /\ sub(r, b) = a

\* C9 (SpecFn): for a and b less than q, mul builds the 8-limb product of
\* a and b; after the four passes r4..r7 hold a value less than 2q and the
\* carry out of r7 is zero; the result is less than q and is a * b / 2^256
\* modulo q; and mul(a, one) is a.
MontgomeryProduct ==
  (op = "mul" /\ Canon(a) /\ Canon(b)) =>
    /\ Flat(mul_wide(a, b)) = NMul(Flat(a), Flat(b))
    /\ NLess(Flat(top_limbs(mul_passes(mul_wide(a, b)))), TwoP)
    /\ mul_passes(mul_wide(a, b))[5] = U0
    /\ Canon(r)
    /\ MontP(Flat(r)) = MulModP(Flat(a), Flat(b))
    /\ b = one => r = a

\* A product whose value after the four passes is not less than q: the
\* final subtraction takes q away.
MontgomeryProductWitness ==
  /\ op = "mul"
  /\ Canon(a)
  /\ Canon(b)
  /\ ~Canon(top_limbs(mul_passes(mul_wide(a, b))))
  /\ Canon(r)

\* C10 (SpecFn): on any 4-limb input square(a) returns the limbs that
\* mul(a, a) returns.
SquareIsMul == op = "square" => r = mul(a, a)

\* The square of an input with the top bit of every limb set.
SquareIsMulWitness ==
  /\ op = "square"
  /\ a = TOP
  /\ r = mul(a, a)

\* (d0 + d1 * 2^256) mod q for two 16-digit numbers d0 and d1
WideModP(d0, d1) == AddModP(NModP(d0), MontP(NModP(d1)))

\* C11 (SpecWide): from_u512 on eight limbs, and from_bytes_wide on the 64
\* bytes that encode them, return an element with stored limbs less than q
\* that is the Montgomery form of the 512-bit integer modulo q, which is
\* from_raw of that integer modulo q; the halves are any 4-limb values.
WideReduction ==
  op # "new" =>
    /\ Canon(r)
    /\ Flat(r) = MontP(WideModP(Flat(a), Flat(b)))
    /\ r = from_raw(Unflat(WideModP(Flat(a), Flat(b))))

\* The input of test_from_u512, given as bytes.
WideReductionWitness ==
  /\ op = "from_bytes_wide"
  /\ a = <<LIMB_A, LIMB_A, LIMB_A, LIMB_A>>
  /\ b = a
  /\ r = from_raw(TEST_A)

\* The number 1.
NOne == Small(1, 16)

\* (u * v) mod q for u, v < q
NMulModP(u, v) == IF u = NOne THEN v ELSE IF v = NOne THEN u ELSE MulModP(u, v)

\* Bit n of the number e.
NBit(e, n) == (e[(n \div 16) + 1] \div (2 ^ (n % 16))) % 2

\* One half step of the binary expansion u^e: acc squared for an odd s,
\* acc times u when bit s / 2 of e is set for an even s.
NPowStep(acc, u, e, s) ==
  IF s % 2 = 1 THEN NMulModP(acc, acc)
  ELSE IF NBit(e, s \div 2) = 1 THEN NMulModP(acc, u)
  ELSE acc

\* The half steps hi, ..., lo; the loop state is <<hi, lo, acc>>.
RECURSIVE NPowSteps(_, _, _)
NPowSteps(st, u, e) ==
  IF st[1] = st[2] THEN NPowStep(st[3], u, e, st[1])
  ELSE NPowSteps(
         <<((st[1] + st[2] + 1) \div 2) - 1, st[2],
           NPowSteps(<<st[1], (st[1] + st[2] + 1) \div 2, st[3]>>, u, e)>>, u, e)

\* (u ^ e) mod q for u < q and a number e
PowModP(u, e) ==
  IF Len(e) = 0 THEN NOne ELSE NPowSteps(<<32 * Len(e) - 1, 0, NOne>>, u, e)

\* The limbs of exp in the opposite order.
Rev(exp) == [i \in 1..Len(exp) |-> exp[Len(exp) + 1 - i]]

\* C12 as stated (SpecPow): pow_vartime(a, exp) is a^e for the integer e
\* that exp holds with its first limb the most significant.
PowVartimeFirstLimbHighest ==
  op = "pow_vartime" => Flat(r) = MontP(PowModP(BytesNat(bytes), Flat(Rev(b))))

\* C12 amended (SpecPow): pow_vartime(a, exp) is a^e for the integer e
\* that exp holds with its first limb the least significant.
PowVartimeFirstLimbLowest ==
  op = "pow_vartime" => Flat(r) = MontP(PowModP(BytesNat(bytes), Flat(b)))

\* An exponent of two different limbs, the second not zero, and a base
\* that is neither zero nor one.
PowVartimeWitness ==
  /\ op = "pow_vartime"
  /\ Len(b) = 2
  /\ b[1] # b[2]
  /\ b[2] # U0
  /\ a \notin {zero, one}
  /\ r \notin {zero, one, a}

\* x + y for two 4-limb values, on 17 digits: the raw sum.
AddSum(x, y) == NAdd(Flat(x), Flat(y))

\* C13 as stated (SpecFn): for a and b less than q, add(a, b) is the raw
\* sum a + b when a + b <= q, and a + b - q when a + b > q.
AddUnchangedUpToModulus ==
  (op = "add" /\ Canon(a) /\ Canon(b)) =>
    /\ ~NLess(P17, AddSum(a, b)) => Pad(Flat(r), 17) = AddSum(a, b)
    /\ NLess(P17, AddSum(a, b)) => Flat(r) = SubSeq(NSub(AddSum(a, b), P17), 1, 16)

\* C13 amended (SpecFn): for a and b less than q, add(a, b) is the raw sum
\* a + b when a + b < q, and a + b - q when a + b >= q.
AddUnchangedBelowModulus ==
  (op = "add" /\ Canon(a) /\ Canon(b)) =>
    /\ NLess(AddSum(a, b), P17) => Pad(Flat(r), 17) = AddSum(a, b)
    /\ ~NLess(AddSum(a, b), P17) => Flat(r) = SubSeq(NSub(AddSum(a, b), P17), 1, 16)

\* add(q - 2, 2): the raw sum is q and the result is zero.
AddUnchangedWitness ==
  /\ op = "add"
  /\ Flat(a) = NSub(P, Small(2, 16))
  /\ Flat(b) = Small(2, 16)
  /\ AddSum(a, b) = P17
  /\ r = zero

====
